---- MODULE Spec2Model ----
(***************************************************************************)
(* Model of the IDL core of evergreen-rs: the schema parser (src/idl.rs),  *)
(* the wire codec pack/unpack (src/idl.rs) and the IDL-to-SQL translator   *)
(* (src/idldb.rs).                                                         *)
(*                                                                         *)
(* Conventions.                                                            *)
(*  - A text (Rust String holding SQL, or the content of a JSON string) is *)
(*    a sequence of pieces; a piece is a run of characters.  The quote     *)
(*    character is always a piece of its own ("'"), so that the            *)
(*    quote-doubling of json_literal_to_sql_value acts on pieces.          *)
(*  - A JSON value is a record tagged by t.  An object keeps its entries   *)
(*    in insertion order, as json::object::Object does; JsonEq is the      *)
(*    crate's PartialEq, which ignores the order of an object's entries.   *)
(*  - A function that can panic returns the pseudo value PanicValue(msg).  *)
(***************************************************************************)
EXTENDS Integers, Sequences, FiniteSets, TLC

VARIABLES
    op,         \* the operation last called on the parsed IDL, "none" if none
    source,     \* the schema document handed to parse_string: its class nodes
    classes,    \* Parser.classes: class name -> Class
    next_node,  \* parse_string's position in the document's class nodes
    parse_panic, \* the panic parse_string ended with, if it did
    call,       \* that call: its argument arg and what it returned, ret
    db_queries, \* the statements the database client received during that call
    db_reply,   \* what the database client answered to them
    editor,     \* an Editor: its session, xact_wanted, xact_id and authtoken
    requests    \* the messages the editor's session sent to the worker

vars == <<op, source, classes, next_node, parse_panic, call, db_queries, db_reply,
          editor, requests>>

(***************************************************************************)
(* Bounds of the model.                                                    *)
(***************************************************************************)
MaxFields == 2      \* field nodes declared by a class node
MaxSeed == 2        \* hash states (iteration orders) a HashMap is tried with
MaxStrLen == 3      \* pieces of a string given to json_literal_to_sql_value
MaxRows == 2        \* rows of a reply of the database client
MaxRequests == 3    \* messages an editor's session sends in a run

(***************************************************************************)
(* Generic helpers.                                                        *)
(***************************************************************************)
Range(s) == {s[i] : i \in DOMAIN s}

SeqsUpTo(S, n) == UNION {[1..k -> S] : k \in 0..n}

FnPut(f, k, v) == [x \in (DOMAIN f) \cup {k} |-> IF x = k THEN v ELSE f[x]]

Reverse(s) == [i \in 1..Len(s) |-> s[Len(s) + 1 - i]]

Rotate(s, n) ==
    IF Len(s) = 0 THEN s
    ELSE [i \in 1..Len(s) |-> s[((i - 1 + n) % Len(s)) + 1]]

RECURSIVE Flatten(_)
Flatten(ss) == IF Len(ss) = 0 THEN <<>> ELSE Head(ss) \o Flatten(Tail(ss))

(***************************************************************************)
(* src/idl.rs: constants.                                                  *)
(***************************************************************************)
AUTO_FIELDS == <<"isnew", "ischanged", "isdeleted">>
CLASSNAME_KEY == "_classname"

\* opensrf::classified: the reserved keys of a classed array on the wire
CLASS_KEY == "__c"
PAYLOAD_KEY == "__p"

(***************************************************************************)
(* The schema document: class nodes with an id, an optional table name, an *)
(* optional primary key and field nodes (name, oils_persist:virtual).      *)
(***************************************************************************)
NoTable == "(none)"

\* the class declares no primary key
NoPkey == "(no primary key)"

\* the node has no such attribute: node.attribute(..) is None
NoAttr == "(no attribute)"

\* a text that is not well-formed XML: all there is to it is the error
\* roxmltree::Document::parse returns
NotWellFormed == << [xml_error |-> "not well-formed"] >>

FieldNode(name, virtual) == [name |-> name, virtual |-> virtual]

\* the field nodes the documents of the model are built from: two column
\* fields, a declared virtual field and a declared bookkeeping field
FieldNodePool ==
    { FieldNode("id", FALSE), FieldNode("name", FALSE),
      FieldNode("name", TRUE), FieldNode("isnew", TRUE) }

ClassNode(id, table, pkey, fields) ==
    [id |-> id, tablename |-> table, pkey |-> pkey, fields |-> fields]

\* one class node: a table class with the primary key id and any field
\* nodes of the pool, a table class that declares no primary key, or a
\* class that has no table
Documents ==
    { << ClassNode("aou", "actor.org_unit", "id", fs) >> :
        fs \in SeqsUpTo(FieldNodePool, MaxFields) }
    \cup { << ClassNode("aou", "actor.org_unit", NoPkey, <<FieldNode("id", FALSE)>>) >> }
    \cup { << ClassNode("aou", NoTable, "id", <<FieldNode("id", FALSE)>>) >> }

\* the sources parse_string cannot read: a text that is not XML, a class
\* node without id (alone, and after a class node that has all it needs)
\* and a field node without name
MalformedDocuments ==
    { NotWellFormed,
      << ClassNode(NoAttr, "actor.org_unit", "id", <<FieldNode("id", FALSE)>>) >>,
      << ClassNode("aou", "actor.org_unit", "id", <<FieldNode("id", FALSE)>>),
         ClassNode(NoAttr, "actor.org_unit", "id", <<FieldNode("id", FALSE)>>) >>,
      << ClassNode("aou", "actor.org_unit", "id",
                   <<FieldNode("id", FALSE), FieldNode(NoAttr, FALSE)>>) >> }

\* a class name no document of the model declares
UnknownClass == "zzz"

(***************************************************************************)
(* src/idl.rs: Parser::add_field, add_auto_fields, add_class.              *)
(***************************************************************************)
Field(name, pos, virtual) == [name |-> name, array_pos |-> pos, is_virtual |-> virtual]

\* class.fields.insert(field.name, field): a later insert under the same
\* name replaces the earlier entry
add_field(fields, pos, node) ==
    FnPut(fields, node.name, Field(node.name, pos, node.virtual))

RECURSIVE add_auto_fields_from(_, _, _)
add_auto_fields_from(fields, pos, i) ==
    IF i > Len(AUTO_FIELDS) THEN fields
    ELSE add_auto_fields_from(
            FnPut(fields, AUTO_FIELDS[i], Field(AUTO_FIELDS[i], pos, TRUE)),
            pos + 1, i + 1)

add_auto_fields(fields, pos) == add_auto_fields_from(fields, pos, 1)

\* the loop over the field nodes: field_array_pos counts every node
RECURSIVE add_fields_from(_, _, _)
add_fields_from(fields, nodes, k) ==
    IF k > Len(nodes) THEN fields
    ELSE add_fields_from(add_field(fields, k - 1, nodes[k]), nodes, k + 1)
\* add_class unwraps the id of the class node and add_field the name of
\* each field node: either panics on a node that has no such attribute
add_class_panics(node) ==
    \/ node.id = NoAttr
    \/ \E i \in 1..Len(node.fields) : node.fields[i].name = NoAttr

\* the Class add_class builds from a class node; hash_seed is the state of
\* the fields HashMap, which fixes its iteration order
add_class(node, seed) ==
    [ class     |-> node.id,
      tablename |-> node.tablename,
      pkey      |-> node.pkey,
      fields    |-> add_auto_fields(add_fields_from(<<>>, node.fields, 1),
                                    Len(node.fields)),
      hash_seed |-> seed ]

(***************************************************************************)
(* json::JsonValue.                                                        *)
(***************************************************************************)
JNull == [t |-> "null"]
JBool(b) == [t |-> "boolean", b |-> b]
JNum(n) == [t |-> "number", n |-> n]
JStr(text) == [t |-> "string", s |-> text]
JArr(members) == [t |-> "array", a |-> members]
\* entries: a sequence of <<key, value>> with distinct keys, in insertion order
JObj(entries) == [t |-> "object", o |-> entries]

\* a string of one piece
Str(s) == JStr(<<s>>)

PanicValue(msg) == [t |-> "panic", msg |-> msg]

is_array(j) == j.t = "array"
is_object(j) == j.t = "object"
is_string(j) == j.t = "string"
is_number(j) == j.t = "number"
is_boolean(j) == j.t = "boolean"
is_null(j) == j.t = "null"
IsPanic(j) == j.t = "panic"

Keys(obj) == {obj.o[i][1] : i \in DOMAIN obj.o}

has_key(j, key) == is_object(j) /\ key \in Keys(j)

\* JsonValue's Index<&str>: the value under key, Null when there is none
Get(j, key) ==
    IF has_key(j, key)
    THEN (CHOOSE e \in Range(j.o) : e[1] = key)[2]
    ELSE JNull

\* JsonValue's Index<usize> (0-based): Null when out of bounds
At(j, index) ==
    IF is_array(j) /\ index + 1 \in DOMAIN j.a THEN j.a[index + 1] ELSE JNull

\* Object::insert: replaces the value of an existing key in place, appends
\* a new key
Insert(obj, key, val) ==
    IF has_key(obj, key)
    THEN JObj([i \in DOMAIN obj.o |->
                 IF obj.o[i][1] = key THEN <<key, val>> ELSE obj.o[i]])
    ELSE JObj(Append(obj.o, <<key, val>>))

\* the first panic among results, if any
FirstPanic(results) ==
    LET bad == {i \in DOMAIN results : IsPanic(results[i])}
    IN  IF bad = {} THEN JNull
        ELSE results[CHOOSE i \in bad : \A k \in bad : i <= k]

AnyPanic(results) == \E i \in DOMAIN results : IsPanic(results[i])

\* JsonValue's PartialEq: arrays member by member, objects key by key
\* whatever the order of their entries
RECURSIVE JsonEq(_, _)
JsonEq(a, b) ==
    IF a.t # b.t THEN FALSE
    ELSE IF a.t = "array"
    THEN /\ Len(a.a) = Len(b.a)
         /\ \A i \in DOMAIN a.a : JsonEq(a.a[i], b.a[i])
    ELSE IF a.t = "object"
    THEN /\ Len(a.o) = Len(b.o)
         /\ \A i \in DOMAIN a.o :
                /\ has_key(b, a.o[i][1])
                /\ JsonEq(a.o[i][2], Get(b, a.o[i][1]))
    ELSE a = b

(***************************************************************************)
(* opensrf::classified::ClassifiedJson.                                    *)
(***************************************************************************)
\* the name a string value holds (as_str), for a class lookup
AsName(j) == IF Len(j.s) = 1 THEN j.s[1] ELSE ""

classify(json, class) ==
    JObj(<< <<CLASS_KEY, Str(class)>>, <<PAYLOAD_KEY, json>> >>)

is_classified(json) ==
    /\ is_object(json)
    /\ has_key(json, CLASS_KEY)
    /\ has_key(json, PAYLOAD_KEY)
    /\ is_string(Get(json, CLASS_KEY))

\* declassify(json) when it is Some: the class and the payload
declassify(json) ==
    [class |-> AsName(Get(json, CLASS_KEY)), json |-> Get(json, PAYLOAD_KEY)]

(***************************************************************************)
(* Iteration over a Class's fields.                                        *)
(***************************************************************************)
\* the fields sorted by array_pos (the entries of a fields map have
\* distinct positions: every insert uses a fresh one)
RECURSIVE SortedByPos(_)
SortedByPos(fs) ==
    IF fs = {} THEN <<>>
    ELSE LET m == CHOOSE f \in fs : \A g \in fs : f.array_pos <= g.array_pos
         IN  <<m>> \o SortedByPos(fs \ {m})

\* the order in which a HashMap in hash state seed yields its entries: a
\* permutation of them that the seed alone decides
HashOrder(entries, seed) ==
    IF seed % 2 = 0 THEN Rotate(entries, seed \div 2)
    ELSE Reverse(Rotate(entries, seed \div 2))

\* class.fields() iterated: the Field of each entry, in the map's order
fields_iter(class) ==
    HashOrder(SortedByPos(Range(class.fields)), class.hash_seed)

(***************************************************************************)
(* src/idl.rs: Parser::array_to_hash, hash_to_array, unpack, pack.         *)
(***************************************************************************)
RECURSIVE insert_fields(_, _, _, _)
insert_fields(hash, fields, value, i) ==
    IF i > Len(fields) THEN hash
    ELSE insert_fields(
            Insert(hash, fields[i].name, At(value, fields[i].array_pos)),
            fields, value, i + 1)

array_to_hash(idl, class, value) ==
    IF class \notin DOMAIN idl
    THEN PanicValue("called Option::unwrap() on a None value")
    ELSE insert_fields(JObj(<< <<CLASSNAME_KEY, Str(class)>> >>),
                       fields_iter(idl[class]), value, 1)

hash_to_array(idl, class, hash) ==
    IF class \notin DOMAIN idl
    THEN PanicValue("called Option::unwrap() on a None value")
    ELSE LET sorted == SortedByPos(Range(idl[class].fields))
         IN  JArr([i \in 1..Len(sorted) |-> Get(hash, sorted[i].name)])

RECURSIVE unpack(_, _)

\* unpack returning the hash of a classed array without unpacking the
\* values it holds
unpack_shallow(idl, value) ==
    IF ~is_array(value) /\ ~is_object(value) THEN value
    ELSE IF is_classified(value)
    THEN IF is_array(declassify(value).json)
         THEN array_to_hash(idl, declassify(value).class, declassify(value).json)
         ELSE PanicValue("IDL-encoded objects should be arrays")
    ELSE IF is_array(value)
    THEN LET arr == [i \in DOMAIN value.a |-> unpack(idl, value.a[i])]
         IN  IF AnyPanic(arr) THEN FirstPanic(arr) ELSE JArr(arr)
    ELSE LET vals == [i \in DOMAIN value.o |-> unpack(idl, value.o[i][2])]
         IN  IF AnyPanic(vals) THEN FirstPanic(vals)
             ELSE JObj([i \in DOMAIN value.o |-> <<value.o[i][1], vals[i]>>])

unpack(idl, value) ==
    IF ~is_array(value) /\ ~is_object(value) THEN value
    ELSE
    LET obj == IF is_classified(value)
               THEN LET unpacked == declassify(value)
                    IN  IF is_array(unpacked.json)
                        THEN array_to_hash(idl, unpacked.class, unpacked.json)
                        ELSE PanicValue("IDL-encoded objects should be arrays")
               ELSE value
    IN  IF IsPanic(obj) THEN obj
        ELSE IF is_array(obj)
        THEN LET arr == [i \in DOMAIN obj.a |-> unpack(idl, obj.a[i])]
             IN  IF AnyPanic(arr) THEN FirstPanic(arr) ELSE JArr(arr)
        ELSE LET vals == [i \in DOMAIN obj.o |-> unpack(idl, obj.o[i][2])]
             IN  IF AnyPanic(vals) THEN FirstPanic(vals)
                 ELSE JObj([i \in DOMAIN obj.o |-> <<obj.o[i][1], vals[i]>>])

RECURSIVE pack(_, _)
pack(idl, value) ==
    IF ~is_array(value) /\ ~is_object(value) THEN value
    ELSE IF is_object(value) /\ has_key(value, CLASSNAME_KEY)
    THEN IF ~is_string(Get(value, CLASSNAME_KEY))
         THEN PanicValue("called Option::unwrap() on a None value")
         ELSE
         LET class == AsName(Get(value, CLASSNAME_KEY))
             array == hash_to_array(idl, class, value)
         IN  IF IsPanic(array) THEN array
             ELSE LET new_arr == [i \in DOMAIN array.a |-> pack(idl, array.a[i])]
                  IN  IF AnyPanic(new_arr) THEN FirstPanic(new_arr)
                      ELSE classify(JArr(new_arr), class)
    ELSE IF is_array(value)
    THEN LET arr == [i \in DOMAIN value.a |-> pack(idl, value.a[i])]
         IN  IF AnyPanic(arr) THEN FirstPanic(arr) ELSE JArr(arr)
    ELSE LET vals == [i \in DOMAIN value.o |-> pack(idl, value.o[i][2])]
         IN  IF AnyPanic(vals) THEN FirstPanic(vals)
             ELSE JObj([i \in DOMAIN value.o |-> <<value.o[i][1], vals[i]>>])

(***************************************************************************)
(* src/idldb.rs: results and error messages.                               *)
(***************************************************************************)
Ok(val) == [t |-> "ok", val |-> val]
\* Err(format!(...)): the fixed part of the message and what it is about
Err(msg, about) == [t |-> "err", msg |-> msg, about |-> about]
IsErr(r) == r.t = "err"
IsOk(r) == r.t = "ok"

NoSuchClass == "No such IDL class"
NoTableForClass == "Cannot query an IDL class that has no tablename"
UnknownField == "Cannot query field"
UnsupportedOperand == "Unsupported operand"
FilterNotAnObject == "Translator class filter must be an object"
LiteralExpected == "Arrays/Objects not supported here"
DatabaseExecutionError == "DB query failed"
UnsupportedColumnType == "Unsupported column type"

(***************************************************************************)
(* src/idldb.rs: Translator::compile_class_select.                         *)
(***************************************************************************)
\* &sql[0..sql.len() - 1]: the text without its last character
TrimFinalChar(sql) ==
    IF sql[Len(sql)] = "," THEN SubSeq(sql, 1, Len(sql) - 1)
    ELSE IF sql = <<"SELECT">> THEN <<"SELEC">>
    ELSE sql

\* compile_class_select without the test of is_virtual
compile_class_select_all(class) ==
    LET fields == fields_iter(class)
        parts == [i \in DOMAIN fields |-> <<" ", fields[i].name, ",">>]
    IN  TrimFinalChar(<<"SELECT">> \o Flatten(parts))

compile_class_select(class) ==
    LET fields == fields_iter(class)
        parts == [i \in DOMAIN fields |->
                    IF ~fields[i].is_virtual
                    THEN <<" ", fields[i].name, ",">> ELSE <<>>]
    IN  TrimFinalChar(<<"SELECT">> \o Flatten(parts))

(***************************************************************************)
(* src/idldb.rs: Translator::json_literal_to_sql_value.                    *)
(***************************************************************************)
\* the string put between the quotes as it is
ReplaceQuotes_none(text) == text

\* str::replace("'", "''")
ReplaceQuotes(text) ==
    Flatten([i \in DOMAIN text |->
                IF text[i] = "'" THEN <<"'", "'">> ELSE <<text[i]>>])

IsLiteral(j) == is_number(j) \/ is_string(j) \/ is_null(j) \/ is_boolean(j)

\* the Some(..) of a literal; IsLiteral(j) is FALSE where the code yields None
json_literal_to_sql_value(j) ==
    IF is_number(j) THEN <<ToString(j.n)>>
    ELSE IF is_string(j) THEN <<"'">> \o ReplaceQuotes(j.s) \o <<"'">>
    ELSE IF is_null(j) THEN <<"NULL">>
    ELSE IF j.b THEN <<"TRUE">> ELSE <<"FALSE">>

(***************************************************************************)
(* src/idldb.rs: Translator::compile_class_filter and its helpers.         *)
(***************************************************************************)
\* str::to_uppercase on the operand keys of the model
to_uppercase(key) ==
    IF key = "is" THEN "IS"
    ELSE IF key = "is not" THEN "IS NOT"
    ELSE IF key = "like" THEN "LIKE"
    ELSE key

\* the operands with the pattern and equality operators accepted too
Operands_lenient == {"IS", "IS NOT", "<", "<=", ">", ">=", "<>", "!=", "=", "LIKE", "~*"}

Operands == {"IS", "IS NOT", "<", "<=", ">", ">=", "<>", "!="}

RECURSIVE filter_object_from(_, _, _)
filter_object_from(entries, i, sql) ==
    IF i > Len(entries) THEN Ok(sql)
    ELSE LET key == entries[i][1]
             val == entries[i][2]
             operand == to_uppercase(key)
         IN  IF ~IsLiteral(val) THEN Err(LiteralExpected, key)
             ELSE IF operand \notin Operands THEN Err(UnsupportedOperand, operand)
             ELSE filter_object_from(entries, i + 1,
                     sql \o <<" ", operand, " ">> \o json_literal_to_sql_value(val))

compile_class_filter_object(obj) == filter_object_from(obj.o, 1, <<>>)

RECURSIVE filter_array_from(_, _, _, _)
filter_array_from(members, i, sql, first) ==
    IF i > Len(members) THEN sql
    ELSE IF IsLiteral(members[i])
    THEN filter_array_from(members, i + 1,
            sql \o (IF first THEN <<>> ELSE <<", ">>)
                \o json_literal_to_sql_value(members[i]),
            FALSE)
    ELSE filter_array_from(members, i + 1, sql, first)

compile_class_filter_array(a) ==
    filter_array_from(a.a, 1, <<" IN (">>, TRUE) \o <<")">>

\* a field test that finds every name
has_field_any(class, field) == TRUE

\* class.fields().iter().filter(|(n, _)| n.eq(&field)).next() is Some
has_field(class, field) == field \in DOMAIN class.fields

\* the filter loop comparing every scalar, null and booleans too, with =
RECURSIVE filter_from_equals(_, _, _, _, _)
filter_from_equals(class, entries, i, sql, first) ==
    IF i > Len(entries) THEN Ok(sql)
    ELSE LET field == entries[i][1]
             subq == entries[i][2]
             sql1 == sql \o (IF first THEN <<>> ELSE <<" AND">>) \o <<" ", field>>
         IN  IF ~has_field(class, field)
             THEN Err(UnknownField, field)
             ELSE IF IsLiteral(subq)
             THEN filter_from_equals(class, entries, i + 1,
                     sql1 \o <<" = ">> \o json_literal_to_sql_value(subq), FALSE)
             ELSE IF is_array(subq)
             THEN filter_from_equals(class, entries, i + 1,
                     sql1 \o compile_class_filter_array(subq), FALSE)
             ELSE LET r == compile_class_filter_object(subq)
                  IN  IF IsErr(r) THEN r
                      ELSE filter_from_equals(class, entries, i + 1, sql1 \o r.val, FALSE)

RECURSIVE filter_from(_, _, _, _, _)
filter_from(class, entries, i, sql, first) ==
    IF i > Len(entries) THEN Ok(sql)
    ELSE LET field == entries[i][1]
             subq == entries[i][2]
             sql1 == sql \o (IF first THEN <<>> ELSE <<" AND">>) \o <<" ", field>>
         IN  IF ~has_field(class, field)
             THEN Err(UnknownField, field)
             ELSE IF is_string(subq) \/ is_number(subq)
             THEN filter_from(class, entries, i + 1,
                     sql1 \o <<" = ">> \o json_literal_to_sql_value(subq), FALSE)
             ELSE IF is_boolean(subq) \/ is_null(subq)
             THEN filter_from(class, entries, i + 1,
                     sql1 \o <<" IS ">> \o json_literal_to_sql_value(subq), FALSE)
             ELSE IF is_array(subq)
             THEN filter_from(class, entries, i + 1,
                     sql1 \o compile_class_filter_array(subq), FALSE)
             ELSE LET r == compile_class_filter_object(subq)
                  IN  IF IsErr(r) THEN r
                      ELSE filter_from(class, entries, i + 1, sql1 \o r.val, FALSE)

compile_class_filter(class, filter) ==
    IF ~is_object(filter) THEN Err(FilterNotAnObject, "")
    ELSE filter_from(class, filter.o, 1, <<" WHERE">>, TRUE)

(***************************************************************************)
(* src/idldb.rs: OrderByDir, OrderBy, Translator::compile_class_order_by.  *)
(***************************************************************************)
OrderBy(field, dir) == [field |-> field, dir |-> dir]

\* impl fmt::Display for OrderByDir
OrderByDirFmt(dir) == IF dir = "Asc" THEN "ASC" ELSE "DESC"
\* order_by_from with a comma after every pair
RECURSIVE order_by_from_commas(_, _, _)
order_by_from_commas(order, i, sql) ==
    IF i > Len(order) THEN sql
    ELSE order_by_from_commas(order, i + 1,
            sql \o <<" ", order[i].field, " ", OrderByDirFmt(order[i].dir)>>
                \o <<",">>)

RECURSIVE order_by_from(_, _, _)
order_by_from(order, i, sql) ==
    IF i > Len(order) THEN sql
    ELSE order_by_from(order, i + 1,
            sql \o <<" ", order[i].field, " ", OrderByDirFmt(order[i].dir)>>
                \o (IF Len(order) - i > 0 THEN <<",">> ELSE <<>>))

compile_class_order_by(order) ==
    IF Len(order) > 0 THEN order_by_from(order, 1, <<" ORDER BY">>) ELSE <<>>

(***************************************************************************)
(* src/idldb.rs: Translator::col_value_to_json_value, row_to_idl.          *)
(* A row is a sequence of columns; a column has the name of its SQL type   *)
(* and its value, SqlNull or the JSON value a non-null column converts to. *)
(***************************************************************************)
SqlNull == [t |-> "sqlnull"]
Column(type, val) == [type |-> type, val |-> val]

ColumnTypes ==
    { "bool",
      "varchar", "char(n)", "text", "name", "timestamp", "timestamptz",
      "int2", "smallserial", "smallint",
      "int", "int4", "serial",
      "int8", "bigserial", "bigint",
      "float4", "real",
      "float8", "double precision" }
\* col_value_to_json_value that reads NULL as the value the type starts from
col_value_to_json_value_default(row, index) ==
    IF index + 1 \notin DOMAIN row
    THEN PanicValue("called Option::unwrap() on a None value")
    ELSE LET col == row[index + 1]
         IN  IF col.type \in ColumnTypes
             THEN Ok(IF col.val # SqlNull THEN col.val
                     ELSE IF col.type = "bool" THEN JBool(FALSE)
                     ELSE IF col.type \in {"varchar", "char(n)", "text", "name",
                                           "timestamp", "timestamptz"}
                     THEN JStr(<<>>)
                     ELSE JNum(0))
             ELSE Err(UnsupportedColumnType, col.type)

\* index is 0-based; json::from(Option<T>) turns None into Null
col_value_to_json_value(row, index) ==
    IF index + 1 \notin DOMAIN row
    THEN PanicValue("called Option::unwrap() on a None value")
    ELSE LET col == row[index + 1]
         IN  IF col.type \in ColumnTypes
             THEN Ok(IF col.val = SqlNull THEN JNull ELSE col.val)
             ELSE Err(UnsupportedColumnType, col.type)

\* the column fields in the order of their array positions
row_fields_by_position(class) ==
    SelectSeq(SortedByPos(Range(class.fields)), LAMBDA f : ~f.is_virtual)

\* the fields row_to_idl reads successive columns into
row_fields(class) ==
    SelectSeq(fields_iter(class), LAMBDA f : ~f.is_virtual)

RECURSIVE row_to_idl_from(_, _, _, _)
row_to_idl_from(fields, row, index, obj) ==
    IF index + 1 > Len(fields) THEN Ok(obj)
    ELSE LET r == col_value_to_json_value(row, index)
         IN  IF ~IsOk(r) THEN r
             ELSE row_to_idl_from(fields, row, index + 1,
                                  Insert(obj, fields[index + 1].name, r.val))

row_to_idl(class, row) ==
    row_to_idl_from(row_fields(class), row, 0,
                    JObj(<< <<CLASSNAME_KEY, Str(class.class)>> >>))

(***************************************************************************)
(* src/idldb.rs: IdlClassSearch, Translator::idl_class_search.             *)
(***************************************************************************)
\* an Option: NoValue is None; filter is NoValue or a JSON value, order_by
\* is NoValue or Some(list)
NoValue == [t |-> "absent"]
Some(v) == [t |-> "some", v |-> v]

\* a limit and an offset; the search spec carries a pager or none
Pager(limit, offset) == [limit |-> limit, offset |-> offset]

IdlClassSearch(classname, filter, order_by, pager) ==
    [classname |-> classname, filter |-> filter, order_by |-> order_by,
     pager |-> pager]

\* the replies of the database client to a statement
DbError == [t |-> "dberror"]
DbRows(rows) == [t |-> "rows", rows |-> rows]
\* compile_query with the order-by clause put before the filter
compile_query_order_first(idl, search) ==
    IF search.classname \notin DOMAIN idl
    THEN Err(NoSuchClass, search.classname)
    ELSE
    LET class == idl[search.classname]
    IN  IF class.tablename = NoTable
        THEN Err(NoTableForClass, search.classname)
        ELSE
        LET query == compile_class_select(class) \o <<" FROM ", class.tablename>>
            filter == IF search.filter = NoValue THEN Ok(<<>>)
                      ELSE compile_class_filter(class, search.filter)
            order == IF search.order_by = NoValue THEN <<>>
                     ELSE compile_class_order_by(search.order_by.v)
        IN  IF IsErr(filter) THEN filter
            ELSE Ok(query \o order \o filter.val)

\* the statement of a search, or the error that ends the call before the
\* database client is used
compile_query(idl, search) ==
    IF search.classname \notin DOMAIN idl
    THEN Err(NoSuchClass, search.classname)
    ELSE
    LET class == idl[search.classname]
    IN  IF class.tablename = NoTable
        THEN Err(NoTableForClass, search.classname)
        ELSE
        LET query == compile_class_select(class) \o <<" FROM ", class.tablename>>
            filter == IF search.filter = NoValue THEN Ok(<<>>)
                      ELSE compile_class_filter(class, search.filter)
            order == IF search.order_by = NoValue THEN <<>>
                     ELSE compile_class_order_by(search.order_by.v)
        IN  IF IsErr(filter) THEN filter
            ELSE Ok(query \o filter.val \o order)
\* compile_pager with the limit and the offset in each other's place
compile_pager_swapped(pager) ==
    IF pager = NoValue THEN <<>>
    ELSE <<" LIMIT ", ToString(pager.v.offset), " OFFSET ", ToString(pager.v.limit)>>

\* compile_pager: the clause of a pager, no text without one
compile_pager(pager) ==
    IF pager = NoValue THEN <<>>
    ELSE <<" LIMIT ", ToString(pager.v.limit), " OFFSET ", ToString(pager.v.offset)>>

\* compile: the statement of a search spec, the pager's clause last
compile(idl, search) ==
    LET query == compile_query(idl, search)
    IN  IF IsErr(query) THEN query
        ELSE Ok(query.val \o compile_pager(search.pager))
\* map_rows_from that returns the objects of the rows before the one that
\* cannot be mapped
RECURSIVE map_rows_from_partial(_, _, _, _)
map_rows_from_partial(class, rows, i, results) ==
    IF i > Len(rows) THEN Ok(results)
    ELSE LET r == row_to_idl(class, rows[i])
         IN  IF ~IsOk(r) THEN Ok(results)
             ELSE map_rows_from_partial(class, rows, i + 1, Append(results, r.val))

\* map_rows_from with each object put in front of the ones before it
RECURSIVE map_rows_from_reversed(_, _, _, _)
map_rows_from_reversed(class, rows, i, results) ==
    IF i > Len(rows) THEN Ok(results)
    ELSE LET r == row_to_idl(class, rows[i])
         IN  IF ~IsOk(r) THEN r
             ELSE map_rows_from_reversed(class, rows, i + 1, <<r.val>> \o results)

RECURSIVE map_rows_from(_, _, _, _)
map_rows_from(class, rows, i, results) ==
    IF i > Len(rows) THEN Ok(results)
    ELSE LET r == row_to_idl(class, rows[i])
         IN  IF ~IsOk(r) THEN r
             ELSE map_rows_from(class, rows, i + 1, Append(results, r.val))

\* a search that hands the client the select statement before the filter
\* is compiled
idl_class_search_eager(idl, search, reply) ==
    LET query == compile(idl, search)
    IN  IF IsErr(query)
        THEN [ret |-> query,
              sent |-> IF search.classname \in DOMAIN idl
                       THEN <<compile_class_select(idl[search.classname])>>
                       ELSE <<>>]
        ELSE IF reply = DbError
        THEN [ret |-> Err(DatabaseExecutionError, ""), sent |-> <<query.val>>]
        ELSE [ret |-> map_rows_from(idl[search.classname], reply.rows, 1, <<>>),
              sent |-> <<query.val>>]
\* idl_class_search that sends its statement again when the database
\* client fails
idl_class_search_retry(idl, search, reply) ==
    LET query == compile(idl, search)
    IN  IF IsErr(query) THEN [ret |-> query, sent |-> <<>>]
        ELSE IF reply = DbError
        THEN [ret |-> Err(DatabaseExecutionError, ""),
              sent |-> <<query.val, query.val>>]
        ELSE [ret |-> map_rows_from(idl[search.classname], reply.rows, 1, <<>>),
              sent |-> <<query.val>>]

\* ret: what the call returns; sent: the statements handed to the client
idl_class_search(idl, search, reply) ==
    LET query == compile(idl, search)
    IN  IF IsErr(query) THEN [ret |-> query, sent |-> <<>>]
        ELSE IF reply = DbError
        THEN [ret |-> Err(DatabaseExecutionError, ""), sent |-> <<query.val>>]
        ELSE [ret |-> map_rows_from(idl[search.classname], reply.rows, 1, <<>>),
              sent |-> <<query.val>>]

NoPrimaryKey == "IDL class has no primary key field"

\* Ok(Some(object)) or Ok(None) of retrieve-by-primary-key
Found(object) == [t |-> "ok", found |-> object]

\* the search of the one object whose primary key has the value pkey
pkey_search(class, pkey) ==
    IdlClassSearch(class.class, JObj(<< <<class.pkey, pkey>> >>), NoValue, NoValue)

\* idl_class_by_pkey with the last object of the search for the first
idl_class_by_pkey_last(idl, classname, pkey, reply) ==
    IF classname \notin DOMAIN idl
    THEN [ret |-> Err(NoSuchClass, classname), sent |-> <<>>]
    ELSE IF idl[classname].pkey = NoPkey
    THEN [ret |-> Err(NoPrimaryKey, classname), sent |-> <<>>]
    ELSE LET done == idl_class_search(idl, pkey_search(idl[classname], pkey), reply)
         IN  IF ~IsOk(done.ret) THEN done
             ELSE [ret |-> Found(IF done.ret.val = <<>> THEN NoValue
                              ELSE Some(done.ret.val[Len(done.ret.val)])),
                   sent |-> done.sent]

\* idl_class_by_pkey: the first object of the search of the class by its
\* primary key, none when the search finds nothing
idl_class_by_pkey(idl, classname, pkey, reply) ==
    IF classname \notin DOMAIN idl
    THEN [ret |-> Err(NoSuchClass, classname), sent |-> <<>>]
    ELSE IF idl[classname].pkey = NoPkey
    THEN [ret |-> Err(NoPrimaryKey, classname), sent |-> <<>>]
    ELSE LET done == idl_class_search(idl, pkey_search(idl[classname], pkey), reply)
         IN  IF ~IsOk(done.ret) THEN done
             ELSE [ret |-> Found(IF done.ret.val = <<>> THEN NoValue
                              ELSE Some(done.ret.val[1])),
                   sent |-> done.sent]

(***************************************************************************)
(* The values the codec is called with.                                    *)
(***************************************************************************)
FieldCount(class) == Cardinality(DOMAIN class.fields)

\* a payload whose elements all differ
NumberedPayload(n) == [i \in 1..n |-> JNum(i)]

NumberedWire(idl, c) == classify(JArr(NumberedPayload(FieldCount(idl[c]))), c)

\* well-formed wire values found inside a payload
WireElements(idl) ==
    { JNull, Str("x"), JArr(<<JNum(7)>>) }
    \cup { NumberedWire(idl, c) : c \in DOMAIN idl }
    \cup { JArr(<<NumberedWire(idl, c)>>) : c \in DOMAIN idl }
    \cup { JObj(<< <<"k", NumberedWire(idl, c)>> >>) : c \in DOMAIN idl }

\* classed arrays of a class of the registry, one payload element per field
\* of the class, nested classed arrays well-formed too
WirePayloads(idl, c) ==
    { NumberedPayload(FieldCount(idl[c])) }
    \cup { [NumberedPayload(FieldCount(idl[c])) EXCEPT ![k] = e] :
              k \in 1..FieldCount(idl[c]), e \in WireElements(idl) }

WellFormedWire(idl) ==
    UNION { { classify(JArr(p), c) : p \in WirePayloads(idl, c) } : c \in DOMAIN idl }

UnknownWire == classify(JArr(NumberedPayload(3)), UnknownClass)

\* values holding, at some depth, a classed array of an unknown class
UnknownClassWire(idl) ==
    { UnknownWire, JArr(<<JNum(1), UnknownWire>>),
      JObj(<< <<"k", UnknownWire>> >>) }
    \cup { classify(JArr([NumberedPayload(FieldCount(idl[c])) EXCEPT ![1] = UnknownWire]), c) :
             c \in DOMAIN idl }

\* an already expanded object of class c that holds a classed array
ExpandedHoldingWire(idl, c) ==
    JObj(<< <<CLASSNAME_KEY, Str(c)>>, <<"isnew", NumberedWire(idl, c)>>,
            <<"ischanged", JNum(1)>> >>)

OtherWire(idl) ==
    { JNum(1), Str("x"), JArr(<<JNum(1), Str("x")>>),
      JObj(<< <<"k", JNum(1)>> >>) }
    \cup { ExpandedHoldingWire(idl, c) : c \in DOMAIN idl }
    \cup { classify(Str("x"), c) : c \in DOMAIN idl }
    \cup { classify(JArr(<<JNum(1)>>), c) : c \in DOMAIN idl }

\* an expanded object of class c: the class tag and the given entry of
\* every field in keep
ExpandedObject(idl, c, vals, keep) ==
    LET sorted == SortedByPos({f \in Range(idl[c].fields) : f.name \in keep})
    IN  JObj(<< <<CLASSNAME_KEY, Str(c)>> >>
             \o [i \in 1..Len(sorted) |-> <<sorted[i].name, vals[sorted[i].name]>>])

NumberedFields(class) ==
    [n \in DOMAIN class.fields |-> JNum(class.fields[n].array_pos + 1)]

NumberedExpanded(idl, c) ==
    ExpandedObject(idl, c, NumberedFields(idl[c]), DOMAIN idl[c].fields)

ExpandedElements(idl) ==
    { JNull, Str("x"), JArr(<<JNum(7)>>) }
    \cup { NumberedExpanded(idl, c) : c \in DOMAIN idl }
    \cup { JArr(<<NumberedExpanded(idl, c)>>) : c \in DOMAIN idl }
    \cup { JObj(<< <<"k", NumberedExpanded(idl, c)>> >>) : c \in DOMAIN idl }

\* objects carrying the class tag and one key per field of the class,
\* nested classed objects well-formed too
ExpandedEntries(idl, c) ==
    { NumberedFields(idl[c]) }
    \cup { [NumberedFields(idl[c]) EXCEPT ![n] = e] :
              n \in DOMAIN idl[c].fields, e \in ExpandedElements(idl) }

WellFormedExpanded(idl) ==
    UNION { { ExpandedObject(idl, c, vals, DOMAIN idl[c].fields) :
                vals \in ExpandedEntries(idl, c) } : c \in DOMAIN idl }

\* tagged objects that lack the key of one field
SparseExpanded(idl) ==
    UNION { { ExpandedObject(idl, c, NumberedFields(idl[c]), (DOMAIN idl[c].fields) \ {n}) :
                n \in DOMAIN idl[c].fields } : c \in DOMAIN idl }

OtherExpanded(idl) ==
    { JNum(1), JArr(<<JNum(1), Str("x")>>), JObj(<< <<"k", JNum(1)>> >>),
      JObj(<< <<CLASSNAME_KEY, JNum(1)>> >>),
      JObj(<< <<CLASSNAME_KEY, Str(UnknownClass)>>, <<"id", JNum(1)>> >>) }

UnpackArgs(idl) == WellFormedWire(idl) \cup UnknownClassWire(idl) \cup OtherWire(idl)
PackArgs(idl) == WellFormedExpanded(idl) \cup SparseExpanded(idl) \cup OtherExpanded(idl)

(***************************************************************************)
(* The values the translator is called with.                               *)
(***************************************************************************)
Strings == { JStr(text) : text \in SeqsUpTo({"a", "'"}, MaxStrLen) }

LiteralArgs ==
    Strings \cup { JNum(1), JNum(10), JNull, JBool(TRUE), JBool(FALSE),
                   JArr(<<>>), JObj(<<>>) }

Obj1(key, val) == JObj(<< <<key, val>> >>)
Obj2(k1, v1, k2, v2) == JObj(<< <<k1, v1>>, <<k2, v2>> >>)

\* "bogus" is a field of no class
FilterFields == {"id", "name", "isnew", "bogus"}

SubQueries ==
    { JNum(1), Str("x"), JStr(<<"O", "'", "Brien">>), JBool(TRUE), JNull,
      JArr(<<JNum(1), JNum(2), JNum(3)>>),
      JArr(<<JNum(1), JArr(<<>>), Str("x")>>),
      JArr(<<>>),
      Obj1("<", JNum(10)), Obj1("is not", JNull), Obj1("like", Str("x")),
      Obj1("=", JNum(1)), Obj1("~*", Str("x")), Obj1("<", JArr(<<JNum(1)>>)),
      JObj(<<>>), Obj2(">", JNum(1), "<", JNum(5)) }

Filters ==
    { Obj1(f, q) : f \in FilterFields, q \in SubQueries }
    \cup { Obj2(ff[1], q1, ff[2], q2) :
             ff \in {p \in FilterFields \X FilterFields : p[1] # p[2]},
             q1 \in {JNum(1), Obj1("like", Str("x")), Obj1("<", JNum(10))},
             q2 \in {Str("x"), JNull} }
    \cup { JObj(<<>>), JNum(1), JArr(<<>>) }

SearchFilters ==
    { NoValue, Obj1("id", JNum(1)), Obj1("id", Obj1("<", JNum(10))),
      Obj1("bogus", JNum(1)), Obj2("id", JNum(1), "bogus", JNum(2)),
      Obj1("id", Obj1("like", Str("x"))), JObj(<<>>), JNum(1) }

SearchOrders ==
    { NoValue, Some(<<>>), Some(<<OrderBy("name", "Asc")>>),
      Some(<<OrderBy("id", "Desc"), OrderBy("name", "Asc")>>) }

\* the columns col_value_to_json_value is called on: of every type it
\* matches and of three it does not, holding NULL, the value a type starts
\* from (false, 0, the empty string) or another value
ColumnArgs ==
    { Column("bool", v) : v \in {SqlNull, JBool(FALSE), JBool(TRUE)} }
    \cup { Column(type, v) :
             type \in {"varchar", "char(n)", "text", "name", "timestamp", "timestamptz"},
             v \in {SqlNull, JStr(<<>>), Str("x")} }
    \cup { Column(type, v) :
             type \in ColumnTypes \ {"bool", "varchar", "char(n)", "text", "name",
                                     "timestamp", "timestamptz"},
             v \in {SqlNull, JNum(0), JNum(7)} }
    \cup { Column(type, v) :
             type \in {"xml", "uuid", "numeric"}, v \in {SqlNull, Str("x")} }

\* the order-by lists compile_class_order_by is called with
OrderLists ==
    { so.v : so \in SearchOrders \ {NoValue} }
    \cup { <<OrderBy("name", "Desc")>>,
           <<OrderBy("id", "Asc"), OrderBy("name", "Desc"), OrderBy("id", "Desc")>> }

\* the order-by list of a call
OfOrder(order) == [order |-> order]

\* the key values retrieve-by-primary-key is called with
PkeyValues == { JNum(1), Str("x"), JStr(<<"O", "'", "Brien">>) }

SearchPagers == { NoValue, Some(Pager(10, 20)) }

Searches ==
    { IdlClassSearch(c, f, o, p) :
        c \in {"aou", UnknownClass}, f \in SearchFilters, o \in SearchOrders,
        p \in SearchPagers }

\* a row of n columns whose values all differ
NumberedRow(n, base) == [i \in 1..n |-> Column("int4", JNum(base + i))]

OddColumns ==
    { Column("int4", SqlNull), Column("text", Str("x")),
      Column("bool", JBool(FALSE)), Column("xml", Str("x")) }

RowsOf(n) ==
    { NumberedRow(n, 0) }
    \cup { [NumberedRow(n, 0) EXCEPT ![k] = c] : k \in 1..n, c \in OddColumns }

\* the replies with rows of n columns
RowReplies(n) ==
    { DbRows(<<>>) }
    \cup { DbRows(<<r>>) : r \in RowsOf(n) }
    \cup { DbRows([j \in 1..m |-> NumberedRow(n, 10 * j)]) : m \in 2..MaxRows }
    \cup { DbRows([j \in 1..mk[1] |->
                      IF j = mk[2]
                      THEN [NumberedRow(n, 10 * j) EXCEPT ![1] = Column("xml", Str("x"))]
                      ELSE NumberedRow(n, 10 * j)]) :
             mk \in {p \in (2..MaxRows) \X (1..MaxRows) : p[2] <= p[1]} }

\* what the database client may answer to the statement of a search: an
\* error, or rows with one column per selected field (a statement that
\* selects nothing is not SQL, the answer is an error); rows of more than
\* one shape are answered to the plain search only
Replies(idl, search) ==
    IF IsErr(compile_query(idl, search)) THEN {DbError}
    ELSE LET n == Len(row_fields(idl[search.classname]))
         IN  IF n = 0 THEN {DbError}
             ELSE IF /\ search.filter = NoValue
                     /\ search.order_by = NoValue
                     /\ search.pager = NoValue
             THEN {DbError} \cup RowReplies(n)
             ELSE {DbError, DbRows(<<>>), DbRows(<<NumberedRow(n, 0)>>),
                   DbRows([j \in 1..MaxRows |-> NumberedRow(n, 10 * j)])}

(***************************************************************************)
(* The state machine.                                                      *)
(***************************************************************************)
\* prev_op, prev: when arg is the value the previous call returned, that
\* call's operation and argument
Call(arg, ret, prev_op, prev) ==
    [arg |-> arg, ret |-> ret, prev_op |-> prev_op, prev |-> prev]

\* a String a call returned, and the class a call was given
Text(sql) == [t |-> "text", val |-> sql]
OfClass(c) == [class |-> c]

NoCall == Call(NoValue, NoValue, "none", NoValue)
(***************************************************************************)
(* The Editor (editor.rs): a session with a worker of a service, opened by *)
(* the first request, and the transaction of that session.  The session    *)
(* belongs to the opensrf crate: a request or a disconnect on it succeeds  *)
(* or fails, as its Result says.                                           *)
(***************************************************************************)
\* Editor::new, with_auth and with_auth_xact
EditorNew(authtoken, xact_wanted) ==
    [ session     |-> NoValue,
      xact_wanted |-> xact_wanted,
      xact_id     |-> NoValue,
      authtoken   |-> authtoken ]

has_session(ed) == ed.session # NoValue

has_xact_id(ed) == ed.xact_id # NoValue

\* what the session does with a message: it sends it and gets the answer,
\* fails to send it, or sends it and fails to get the answer
SessionOutcomes == { "ok", "send failed", "recv failed" }

SessionError == "session error"

\* request: opens the session if there is none, sends the method and
\* waits for its one response
request(ed, method, outcome) ==
    LET opened == IF has_session(ed) THEN ed
                  ELSE [ed EXCEPT !.session = Some("open-ils.cstore")]
    IN  IF outcome = "send failed"
        THEN [ed |-> opened, ret |-> Err(SessionError, method), sent |-> <<>>]
        ELSE IF outcome = "recv failed"
        THEN [ed |-> opened, ret |-> Err(SessionError, method), sent |-> <<method>>]
        ELSE [ed |-> opened, ret |-> Ok(<<>>), sent |-> <<method>>]

\* retrieve: the request of the class's retrieve method, when the class
\* has a fieldmapper value
retrieve(ed, known, outcome) ==
    IF ~known THEN [ed |-> ed, ret |-> Err(NoSuchClass, UnknownClass), sent |-> <<>>]
    ELSE request(ed, "open-ils.cstore.direct.actor.org_unit.retrieve", outcome)

xact_rollback(ed, outcome) ==
    LET req == IF has_session(ed) /\ has_xact_id(ed)
               THEN request(ed, "open-ils.cstore.transaction.rollback", outcome)
               ELSE [ed |-> ed, ret |-> Ok(<<>>), sent |-> <<>>]
    IN  IF IsErr(req.ret) THEN req
        ELSE [ed |-> [req.ed EXCEPT !.xact_id = NoValue, !.xact_wanted = FALSE],
              ret |-> Ok(<<>>), sent |-> req.sent]

disconnect(ed, outcome) ==
    IF has_session(ed) /\ outcome # "ok"
    THEN [ed |-> ed, ret |-> Err(SessionError, "DISCONNECT"),
          sent |-> IF outcome = "recv failed" THEN <<"DISCONNECT">> ELSE <<>>]
    ELSE [ed |-> [ed EXCEPT !.session = NoValue], ret |-> Ok(<<>>),
          sent |-> IF has_session(ed) THEN <<"DISCONNECT">> ELSE <<>>]

rollback(ed, rolled, disconnected) ==
    LET x == xact_rollback(ed, rolled)
    IN  IF IsErr(x.ret) THEN x
        ELSE LET d == disconnect(x.ed, disconnected)
             IN  [ed |-> d.ed, ret |-> d.ret, sent |-> x.sent \o d.sent]

\* the editor before a call and the number of messages sent before it
OfEditor(ed, log) == [editor |-> ed, log |-> Len(log)]

EditorInit ==
    /\ source = <<>>
    /\ classes = <<>>
    /\ next_node = 1
    /\ parse_panic = NoValue
    /\ op = "none"
    /\ call = NoCall
    /\ db_queries = <<>>
    /\ db_reply = NoValue
    /\ editor \in { EditorNew(NoValue, FALSE), EditorNew(Some("token"), FALSE),
                    EditorNew(Some("token"), TRUE) }
    /\ requests = <<>>

Retrieve ==
    /\ Len(requests) < MaxRequests
    /\ \E known \in BOOLEAN, outcome \in SessionOutcomes :
          LET done == retrieve(editor, known, outcome)
          IN  /\ call' = Call(OfEditor(editor, requests), done.ret, "none", NoValue)
              /\ editor' = done.ed
              /\ requests' = requests \o done.sent
    /\ op' = "retrieve"
    /\ UNCHANGED <<source, classes, next_node, parse_panic, db_queries, db_reply>>

XactRollback ==
    /\ Len(requests) < MaxRequests
    /\ \E outcome \in SessionOutcomes :
          LET done == xact_rollback(editor, outcome)
          IN  /\ call' = Call(OfEditor(editor, requests), done.ret, "none", NoValue)
              /\ editor' = done.ed
              /\ requests' = requests \o done.sent
    /\ op' = "xact_rollback"
    /\ UNCHANGED <<source, classes, next_node, parse_panic, db_queries, db_reply>>

Disconnect ==
    /\ Len(requests) < MaxRequests
    /\ \E outcome \in SessionOutcomes :
          LET done == disconnect(editor, outcome)
          IN  /\ call' = Call(OfEditor(editor, requests), done.ret, "none", NoValue)
              /\ editor' = done.ed
              /\ requests' = requests \o done.sent
    /\ op' = "disconnect"
    /\ UNCHANGED <<source, classes, next_node, parse_panic, db_queries, db_reply>>

Rollback ==
    /\ Len(requests) < MaxRequests
    /\ \E rolled \in SessionOutcomes, disconnected \in SessionOutcomes :
          LET done == rollback(editor, rolled, disconnected)
          IN  /\ call' = Call(OfEditor(editor, requests), done.ret, "none", NoValue)
              /\ editor' = done.ed
              /\ requests' = requests \o done.sent
    /\ op' = "rollback"
    /\ UNCHANGED <<source, classes, next_node, parse_panic, db_queries, db_reply>>

EditorNext ==
    \/ Retrieve
    \/ XactRollback
    \/ Disconnect
    \/ Rollback

EditorSpec == EditorInit /\ [][EditorNext]_vars

Init ==
    /\ source \in Documents \cup MalformedDocuments
    /\ classes = <<>>
    /\ next_node = 1
    /\ parse_panic = NoValue
    /\ op = "none"
    /\ call = NoCall
    /\ db_queries = <<>>
    /\ db_reply = NoValue
    /\ editor = EditorNew(NoValue, FALSE)
    /\ requests = <<>>

\* parse_string returned the parser
Parsed == next_node > Len(source) /\ parse_panic = NoValue

\* parse_string's Document::parse(xml).unwrap() on a text that is not XML
ParseDocument ==
    /\ parse_panic = NoValue
    /\ source = NotWellFormed
    /\ parse_panic' = PanicValue("called Result::unwrap() on an Err value")
    /\ UNCHANGED <<op, source, classes, next_node, call, db_queries, db_reply,
                 editor, requests>>

\* parse_string's loop body: add_class on the next class node
ParseClass ==
    /\ ~Parsed
    /\ parse_panic = NoValue
    /\ source # NotWellFormed
    /\ IF add_class_panics(source[next_node])
       THEN /\ parse_panic' = PanicValue("called Option::unwrap() on a None value")
            /\ UNCHANGED <<classes, next_node>>
       ELSE /\ \E seed \in 0..MaxSeed :
                  classes' = FnPut(classes, source[next_node].id,
                                   add_class(source[next_node], seed))
            /\ next_node' = next_node + 1
            /\ UNCHANGED parse_panic
    /\ UNCHANGED <<op, source, call, db_queries, db_reply,
                 editor, requests>>

\* no call is in progress and no returned value is held by the caller
Idle == Parsed /\ op = "none"

\* a caller may hand a codec function the value the previous call returned
Chainable ==
    /\ Parsed
    /\ op \in {"unpack", "pack"}
    /\ call.prev_op = "none"
    /\ ~IsPanic(call.ret)

Unpack ==
    /\ \/ /\ Idle
          /\ \E x \in UnpackArgs(classes) :
                call' = Call(x, unpack(classes, x), "none", NoValue)
       \/ /\ Chainable
          /\ call' = Call(call.ret, unpack(classes, call.ret), op, call.arg)
    /\ op' = "unpack"
    /\ UNCHANGED <<source, classes, next_node, parse_panic, db_queries, db_reply,
                 editor, requests>>

Pack ==
    /\ \/ /\ Idle
          /\ \E x \in PackArgs(classes) :
                call' = Call(x, pack(classes, x), "none", NoValue)
       \/ /\ Chainable
          /\ call' = Call(call.ret, pack(classes, call.ret), op, call.arg)
    /\ op' = "pack"
    /\ UNCHANGED <<source, classes, next_node, parse_panic, db_queries, db_reply,
                 editor, requests>>

CompileSelect ==
    /\ Idle
    /\ \E c \in DOMAIN classes :
          call' = Call(OfClass(c), Text(compile_class_select(classes[c])),
                       "none", NoValue)
    /\ op' = "compile_class_select"
    /\ UNCHANGED <<source, classes, next_node, parse_panic, db_queries, db_reply,
                 editor, requests>>

CompileOrderBy ==
    /\ Idle
    /\ \E order \in OrderLists :
          call' = Call(OfOrder(order), Text(compile_class_order_by(order)),
                       "none", NoValue)
    /\ op' = "compile_class_order_by"
    /\ UNCHANGED <<source, classes, next_node, parse_panic, db_queries, db_reply,
                 editor, requests>>

\* what col_value_to_json_value returned to its caller: Ok(json) or the error
Decoded(r) == IF IsOk(r) THEN [t |-> "ok", json |-> r.val] ELSE r

ColValueToJson ==
    /\ Idle
    /\ \E col \in ColumnArgs :
          call' = Call(col, Decoded(col_value_to_json_value(<<col>>, 0)),
                       "none", NoValue)
    /\ op' = "col_value_to_json_value"
    /\ UNCHANGED <<source, classes, next_node, parse_panic, db_queries, db_reply,
                 editor, requests>>

LiteralToSql ==
    /\ Idle
    /\ \E j \in LiteralArgs :
          call' = Call(j,
                       IF IsLiteral(j) THEN Ok(json_literal_to_sql_value(j))
                       ELSE NoValue,
                       "none", NoValue)
    /\ op' = "json_literal_to_sql_value"
    /\ UNCHANGED <<source, classes, next_node, parse_panic, db_queries, db_reply,
                 editor, requests>>

\* CompileFilter whose second call reads the entries of the filter in
\* the opposite order
CompileFilter_unordered ==
    /\ \/ /\ Idle
          /\ \E c \in DOMAIN classes, f \in Filters :
                call' = Call([class |-> c, filter |-> f],
                             compile_class_filter(classes[c], f), "none", NoValue)
       \/ /\ Parsed
          /\ op = "compile_class_filter"
          /\ call.prev_op = "none"
          /\ call' = Call(call.arg,
                          compile_class_filter(
                              classes[call.arg.class],
                              IF is_object(call.arg.filter)
                              THEN JObj(Reverse(call.arg.filter.o))
                              ELSE call.arg.filter),
                          op, call.ret)
    /\ op' = "compile_class_filter"
    /\ UNCHANGED <<source, classes, next_node, parse_panic, db_queries, db_reply,
                 editor, requests>>

\* compile_class_filter called, on any class and filter or once more on
\* the class and the filter of the call before (whose result is kept in prev)
CompileFilter ==
    /\ \/ /\ Idle
          /\ \E c \in DOMAIN classes, f \in Filters :
                call' = Call([class |-> c, filter |-> f],
                             compile_class_filter(classes[c], f), "none", NoValue)
       \/ /\ Parsed
          /\ op = "compile_class_filter"
          /\ call.prev_op = "none"
          /\ call' = Call(call.arg,
                          compile_class_filter(classes[call.arg.class],
                                               call.arg.filter),
                          op, call.ret)
    /\ op' = "compile_class_filter"
    /\ UNCHANGED <<source, classes, next_node, parse_panic, db_queries, db_reply,
                 editor, requests>>

\* idl_class_search, the database client answering reply if it is queried
\* what the database client may answer to retrieve-by-primary-key
PkeyReplies(idl, classname, pkey) ==
    IF classname \in DOMAIN idl /\ idl[classname].pkey # NoPkey
    THEN Replies(idl, pkey_search(idl[classname], pkey))
    ELSE {DbError}

RetrieveByPkey ==
    /\ Idle
    /\ \E classname \in {"aou", UnknownClass}, pkey \in PkeyValues :
          \E reply \in PkeyReplies(classes, classname, pkey) :
             LET done == idl_class_by_pkey(classes, classname, pkey, reply)
             IN  /\ call' = Call([classname |-> classname, pkey |-> pkey],
                                 done.ret, "none", NoValue)
                 /\ db_queries' = done.sent
                 /\ db_reply' = IF done.sent = <<>> THEN NoValue ELSE reply
    /\ op' = "idl_class_by_pkey"
    /\ UNCHANGED <<source, classes, next_node, parse_panic,
                 editor, requests>>

Search ==
    /\ Idle
    /\ \E search \in Searches :
          \E reply \in Replies(classes, search) :
             LET done == idl_class_search(classes, search, reply)
             IN  /\ call' = Call(search, done.ret, "none", NoValue)
                 /\ db_queries' = done.sent
                 /\ db_reply' = IF done.sent = <<>> THEN NoValue ELSE reply
    /\ op' = "idl_class_search"
    /\ UNCHANGED <<source, classes, next_node, parse_panic,
                 editor, requests>>
\* Drop that also lets go of the classes of the registry
Drop_registry ==
    /\ Parsed
    /\ op # "none"
    /\ op' = "none"
    /\ call' = NoCall
    /\ db_queries' = <<>>
    /\ db_reply' = NoValue
    /\ classes' = <<>>
    /\ UNCHANGED <<source, next_node, parse_panic,
                 editor, requests>>

\* the caller is done with the value a call returned
Drop ==
    /\ Parsed
    /\ op # "none"
    /\ op' = "none"
    /\ call' = NoCall
    /\ db_queries' = <<>>
    /\ db_reply' = NoValue
    /\ UNCHANGED <<source, classes, next_node, parse_panic,
                 editor, requests>>

Next ==
    \/ ParseDocument
    \/ ParseClass
    \/ Unpack
    \/ Pack
    \/ CompileSelect
    \/ CompileOrderBy
    \/ ColValueToJson
    \/ LiteralToSql
    \/ CompileFilter
    \/ Search
    \/ RetrieveByPkey
    \/ Drop

Spec == Init /\ [][Next]_vars

(***************************************************************************)
(* Properties of the registry and the codec.                               *)
(***************************************************************************)
\* the class's array positions are 0 .. F-1, each held by one field
Contiguous(class) ==
    {f.array_pos : f \in Range(class.fields)} = 0..(FieldCount(class) - 1)

\* C1: for every class of the registry and every well-formed classed wire
\* value x of that class, pack(unpack(x)) equals x.
C1_PackOfUnpack ==
    (/\ op = "pack"
     /\ call.prev_op = "unpack"
     /\ call.prev \in WellFormedWire(classes))
    => JsonEq(call.ret, call.prev)

\* C2: for every class of the registry and every well-formed expanded
\* object o of that class, unpack(pack(o)) equals o.
C2_UnpackOfPack ==
    (/\ op = "unpack"
     /\ call.prev_op = "pack"
     /\ call.prev \in WellFormedExpanded(classes))
    => JsonEq(call.ret, call.prev)

\* C3: after parse, the k-th field node of every class (0-indexed, in
\* source order) has array position k, and isnew, ischanged, isdeleted hold
\* the positions N, N+1, N+2 after the N declared fields.
C3_DeclaredPositions ==
    Parsed =>
        \A n \in DOMAIN source :
            LET node == source[n]
                class == classes[node.id]
                N == Len(node.fields)
            IN  /\ \A k \in 1..N :
                      class.fields[node.fields[k].name].array_pos = k - 1
                /\ \A i \in DOMAIN AUTO_FIELDS :
                      class.fields[AUTO_FIELDS[i]].array_pos = N + i - 1

\* what the codec's contract calls an error result handed to the caller
ErrorResult(kind) == [t |-> "error", kind |-> kind]

\* value holds, at some depth, a classed array of a class not in idl
RECURSIVE HoldsUnknownClass(_, _)
HoldsUnknownClass(idl, value) ==
    IF is_array(value)
    THEN \E i \in DOMAIN value.a : HoldsUnknownClass(idl, value.a[i])
    ELSE IF is_object(value)
    THEN \/ is_classified(value) /\ declassify(value).class \notin DOMAIN idl
         \/ \E i \in DOMAIN value.o : HoldsUnknownClass(idl, value.o[i][2])
    ELSE FALSE

\* C4: unpack of a value that holds, at any depth, a classed array whose
\* class is not in the registry returns the error result
\* CodecClassNotFound to its caller.
C4_UnknownClassIsAnError ==
    (op = "unpack" /\ HoldsUnknownClass(classes, call.arg))
    => call.ret = ErrorResult("CodecClassNotFound")

\* C5: unpack is idempotent on its own output, unpack(unpack(x)) equals
\* unpack(x) whenever unpack(x) succeeds, and an object that already
\* carries its class tag is not expanded again: it keeps its keys and only
\* the values under them are unpacked.
C5_UnpackIdempotent ==
    /\ (op = "unpack" /\ call.prev_op = "unpack")
       => JsonEq(call.ret, call.arg)
    /\ (/\ op = "unpack"
        /\ has_key(call.arg, CLASSNAME_KEY)
        /\ ~is_classified(call.arg)
        /\ ~IsPanic(call.ret))
       => /\ is_object(call.ret)
          /\ Keys(call.ret) = Keys(call.arg)
          /\ \A k \in Keys(call.arg) : ~is_classified(Get(call.ret, k))

\* C5 witness: unpack was applied to the hash unpack made of a classed
\* array that held a nested classed array
C5_Witness ==
    /\ op = "unpack"
    /\ call.prev_op = "unpack"
    /\ is_classified(call.prev)
    /\ \E i \in DOMAIN Get(call.prev, PAYLOAD_KEY).a :
          is_classified(Get(call.prev, PAYLOAD_KEY).a[i])
    /\ has_key(call.ret, CLASSNAME_KEY)

\* C6: pack of an object tagged with a class of the registry yields a
\* classed array of that class whose payload has one element per field of
\* the class, element p being the packed value stored under the name of the
\* field at position p, null when the object has no such key.
C6_PackPayload ==
    (/\ op = "pack"
     /\ has_key(call.arg, CLASSNAME_KEY)
     /\ is_string(Get(call.arg, CLASSNAME_KEY))
     /\ AsName(Get(call.arg, CLASSNAME_KEY)) \in DOMAIN classes)
    => LET class == classes[AsName(Get(call.arg, CLASSNAME_KEY))]
           payload == Get(call.ret, PAYLOAD_KEY)
       IN  /\ is_classified(call.ret)
           /\ declassify(call.ret).class = class.class
           /\ is_array(payload)
           /\ Len(payload.a) = FieldCount(class)
           /\ \A p \in 0..(FieldCount(class) - 1) :
                 \E f \in Range(class.fields) :
                    /\ f.array_pos = p
                    /\ JsonEq(At(payload, p), pack(classes, Get(call.arg, f.name)))

(***************************************************************************)
(* Properties of the translator.                                           *)
(***************************************************************************)
\* the field names of the select list of a statement
SelectNames(sql) ==
    LET froms == {i \in DOMAIN sql : sql[i] = " FROM "}
        stop == IF froms = {} THEN Len(sql) + 1
                ELSE CHOOSE i \in froms : \A k \in froms : i <= k
    IN  SelectSeq(SubSeq(sql, 2, stop - 1), LAMBDA p : p \notin {" ", ","})

NamesOf(fields) == [i \in DOMAIN fields |-> fields[i].name]

\* what a column of a row holds, as a JSON value
ColumnJson(col) == IF col.val = SqlNull THEN JNull ELSE col.val

\* C7: for every class, the field names compile_select emits and the field
\* names row_to_idl assigns successive columns to are the same sequence, so
\* column i of a row is stored under the i-th selected field name.
C7_SelectOrderIsRowOrder ==
    /\ Parsed =>
          \A c \in DOMAIN classes :
             SelectNames(compile_class_select(classes[c]))
                = NamesOf(row_fields(classes[c]))
    /\ (op = "idl_class_search" /\ IsOk(call.ret))
       => LET names == SelectNames(db_queries[1])
              rows == db_reply.rows
          IN  /\ Len(call.ret.val) = Len(rows)
              /\ \A r \in DOMAIN rows :
                    \A i \in DOMAIN names :
                       JsonEq(Get(call.ret.val[r], names[i]), ColumnJson(rows[r][i]))

\* C7 witness: a search returned the object of a row of two columns, for a
\* class whose fields map does not iterate in position order
C7_Witness ==
    /\ op = "idl_class_search"
    /\ IsOk(call.ret)
    /\ Len(call.ret.val) >= 1
    /\ Len(SelectNames(db_queries[1])) = 2
    /\ NamesOf(row_fields(classes[call.arg.classname]))
         # NamesOf(row_fields_by_position(classes[call.arg.classname]))

\* the order of the field names of the model
NameRank(name) ==
    IF name = "id" THEN 1
    ELSE IF name = "ischanged" THEN 2
    ELSE IF name = "isdeleted" THEN 3
    ELSE IF name = "isnew" THEN 4
    ELSE 5

ColumnNames(class) == {f.name : f \in {g \in Range(class.fields) : ~g.is_virtual}}

\* " n1, n2, ..." without a final comma
RECURSIVE CommaSeparated(_)
CommaSeparated(names) ==
    IF Len(names) = 0 THEN <<>>
    ELSE <<" ", Head(names)>>
         \o (IF Len(names) > 1 THEN <<",">> ELSE <<>>)
         \o CommaSeparated(Tail(names))

\* the select list holds exactly the non-virtual field names, each once,
\* separated by commas
SelectListOfColumns(class, sql) ==
    LET names == SelectNames(sql)
    IN  /\ Range(names) = ColumnNames(class)
        /\ Len(names) = Cardinality(ColumnNames(class))
        /\ Tail(sql) = CommaSeparated(names)

\* C8 as stated: compile_select emits exactly the non-virtual field names,
\* each once, comma-separated, sorted by field name, and no virtual field.
C8_SelectSortedByName ==
    op = "compile_class_select"
    => /\ SelectListOfColumns(classes[call.arg.class], call.ret.val)
       /\ \A i, k \in DOMAIN SelectNames(call.ret.val) :
             i < k => NameRank(SelectNames(call.ret.val)[i]) < NameRank(SelectNames(call.ret.val)[k])

\* C8 amended: compile_select emits exactly the non-virtual field names,
\* each once, comma-separated, in the order in which the class's fields map
\* iterates (which need not be the order of the names), and no virtual
\* field.
C8_SelectInMapOrder ==
    op = "compile_class_select"
    => /\ SelectListOfColumns(classes[call.arg.class], call.ret.val)
       /\ \A i, k \in DOMAIN SelectNames(call.ret.val) :
             LET order == NamesOf(fields_iter(classes[call.arg.class]))
                 at(n) == CHOOSE x \in DOMAIN order : order[x] = n
             IN  i < k => at(SelectNames(call.ret.val)[i]) < at(SelectNames(call.ret.val)[k])

\* C8 witness: compile_select ran on a class with two column fields beside
\* its virtual bookkeeping fields, and the two columns came out against the
\* order of their names
C8_Witness ==
    /\ op = "compile_class_select"
    /\ SelectNames(call.ret.val) = <<"name", "id">>
    /\ \E f \in Range(classes[call.arg.class].fields) : f.is_virtual

\* the filter is an object and names a field the class has not
NamesAbsentField(class, filter) ==
    /\ is_object(filter)
    /\ \E i \in DOMAIN filter.o : filter.o[i][1] \notin DOMAIN class.fields

FirstAbsent(class, filter) ==
    CHOOSE i \in DOMAIN filter.o :
        /\ filter.o[i][1] \notin DOMAIN class.fields
        /\ \A k \in DOMAIN filter.o :
              filter.o[k][1] \notin DOMAIN class.fields => i <= k

\* a search whose class is in the registry and whose filter names a field
\* the class has not
SearchNamesAbsentField ==
    /\ op = "idl_class_search"
    /\ call.arg.classname \in DOMAIN classes
    /\ call.arg.filter # NoValue
    /\ NamesAbsentField(classes[call.arg.classname], call.arg.filter)

\* C9 as stated: compile_filter on a filter that names any field absent
\* from the class returns UnknownField and no SQL text, and a search given
\* such a filter never invokes the database client.
C9_AbsentFieldIsUnknownField ==
    /\ (/\ op = "compile_class_filter"
        /\ NamesAbsentField(classes[call.arg.class], call.arg.filter))
       => (IsErr(call.ret) /\ call.ret.msg = UnknownField)
    /\ SearchNamesAbsentField => db_queries = <<>>

\* C9 amended: compile_filter on such a filter returns an error and no SQL
\* text at all: UnknownField for the first absent field, unless the operand
\* object of an earlier entry is rejected first, and then that entry's
\* error; a search given such a filter never invokes the database client.
C9_AbsentFieldIsAnError ==
    /\ (/\ op = "compile_class_filter"
        /\ NamesAbsentField(classes[call.arg.class], call.arg.filter))
       => LET entries == call.arg.filter.o
              a == FirstAbsent(classes[call.arg.class], call.arg.filter)
          IN  /\ IsErr(call.ret)
              /\ \/ call.ret = Err(UnknownField, entries[a][1])
                 \/ \E j \in 1..(a - 1) :
                       /\ is_object(entries[j][2])
                       /\ call.ret = compile_class_filter_object(entries[j][2])
                       /\ call.ret.msg \in {UnsupportedOperand, LiteralExpected}
    /\ SearchNamesAbsentField => (IsErr(call.ret) /\ db_queries = <<>>)

\* C9 witness: compile_filter met an absent field after an entry it had
\* compiled
C9_Witness ==
    /\ op = "compile_class_filter"
    /\ is_object(call.arg.filter)
    /\ Len(call.arg.filter.o) = 2
    /\ call.arg.filter.o[1][1] \in DOMAIN classes[call.arg.class].fields
    /\ call.arg.filter.o[2][1] \notin DOMAIN classes[call.arg.class].fields
    /\ call.ret = Err(UnknownField, call.arg.filter.o[2][1])

\* how SQL reads a quoted literal: from the opening quote, a doubled quote
\* is one quote of the value and a single quote ends the literal.  done:
\* the literal was ended; end: the place of the quote that ended it.
RECURSIVE SqlReadQuoted(_, _, _)
SqlReadQuoted(sql, i, val) ==
    IF i > Len(sql) THEN [done |-> FALSE, end |-> i, val |-> val]
    ELSE IF sql[i] # "'" THEN SqlReadQuoted(sql, i + 1, Append(val, sql[i]))
    ELSE IF i + 1 <= Len(sql) /\ sql[i + 1] = "'"
    THEN SqlReadQuoted(sql, i + 2, Append(val, "'"))
    ELSE [done |-> TRUE, end |-> i, val |-> val]

\* C10: for every string s, the SQL literal emitted for s is one quoted
\* literal that ends at its last character and reads back as s.
C10_QuotedLiteralReadsBack ==
    (op = "json_literal_to_sql_value" /\ is_string(call.arg))
    => /\ IsOk(call.ret)
       /\ Len(call.ret.val) >= 2
       /\ call.ret.val[1] = "'"
       /\ LET read == SqlReadQuoted(call.ret.val, 2, <<>>)
          IN  /\ read.done
              /\ read.end = Len(call.ret.val)
              /\ read.val = call.arg.s

\* C10 witness: the literal of a string with two quote characters
C10_Witness ==
    /\ op = "json_literal_to_sql_value"
    /\ is_string(call.arg)
    /\ Cardinality({i \in DOMAIN call.arg.s : call.arg.s[i] = "'"}) >= 2
    /\ IsOk(call.ret)

(***************************************************************************)
(* Properties of the query compiler and of search.                         *)
(***************************************************************************)
\* the identifiers the searches of the model name fields with
FieldNames == FilterFields \cup {o.field : o \in UNION {Range(so.v) : so \in SearchOrders \ {NoValue}}}
              \cup Range(AUTO_FIELDS)

\* the field names that appear in a statement
NamesIn(sql) == {sql[i] : i \in {k \in 1..Len(sql) : sql[k] \in FieldNames}}

\* a search sent a statement to the database client
SearchSent == op = "idl_class_search" /\ db_queries # <<>>

\* C11: no field name that is not a field of the searched class appears in
\* a statement search compiles, whether it came from the filter or from the
\* order-by list.
C11_OnlyClassFieldsInStatement ==
    SearchSent =>
        NamesIn(db_queries[1]) \subseteq DOMAIN classes[call.arg.classname].fields

\* the errors of compilation
CompileErrors ==
    {NoSuchClass, NoTableForClass, UnknownField, UnsupportedOperand,
     FilterNotAnObject, LiteralExpected}

\* C12: whenever search returns a compilation error, the database client
\* was handed no statement during that call.
C12_CompileErrorsBeforeAnyStatement ==
    (/\ op = "idl_class_search"
     /\ IsErr(call.ret)
     /\ call.ret.msg \in CompileErrors)
    => db_queries = <<>> /\ db_reply = NoValue

\* C12 witness: a search of a known class with a table ended in the error
\* of an operand, after the select list and the table were compiled
C12_Witness ==
    /\ op = "idl_class_search"
    /\ IsErr(call.ret)
    /\ call.ret.msg = UnsupportedOperand
    /\ db_queries = <<>>

\* compile_filter was called with a filter object whose first entry is a
\* field of the class tested by an object of one operand and a literal
OperandFilter ==
    /\ op = "compile_class_filter"
    /\ is_object(call.arg.filter)
    /\ Len(call.arg.filter.o) >= 1
    /\ call.arg.filter.o[1][1] \in DOMAIN classes[call.arg.class].fields
    /\ is_object(call.arg.filter.o[1][2])
    /\ Len(call.arg.filter.o[1][2].o) = 1
    /\ IsLiteral(call.arg.filter.o[1][2].o[1][2])

\* the text of the first entry of the filter of an OperandFilter call
OperandText ==
    LET entry == call.arg.filter.o[1]
    IN  <<" WHERE", " ", entry[1], " ", to_uppercase(entry[2].o[1][1]), " ">>
        \o json_literal_to_sql_value(entry[2].o[1][2])

ScalarFilter ==
    /\ op = "compile_class_filter"
    /\ is_object(call.arg.filter)
    /\ Len(call.arg.filter.o) >= 1
    /\ \A i \in 1..Len(call.arg.filter.o) :
          /\ call.arg.filter.o[i][1] \in DOMAIN classes[call.arg.class].fields
          /\ IsLiteral(call.arg.filter.o[i][2])

\* the test of one such entry
ScalarTest(entry) ==
    <<" ", entry[1]>>
    \o (IF is_null(entry[2]) THEN <<" IS ", "NULL">>
        ELSE IF is_boolean(entry[2])
        THEN <<" IS ", IF entry[2].b THEN "TRUE" ELSE "FALSE">>
        ELSE <<" = ">> \o json_literal_to_sql_value(entry[2]))

\* the tests of the entries from the i-th on, joined by AND
RECURSIVE ScalarTests(_, _)
ScalarTests(entries, i) ==
    IF i > Len(entries) THEN <<>>
    ELSE (IF i > 1 THEN <<" AND">> ELSE <<>>)
         \o ScalarTest(entries[i]) \o ScalarTests(entries, i + 1)

\* C14: a field whose sub-query is a string or a number compiles to
\* `field = literal`, one whose sub-query is a boolean or null to
\* `field IS literal` (TRUE, FALSE or NULL).
C14_ScalarTests ==
    ScalarFilter =>
        call.ret = Ok(<<" WHERE">> \o ScalarTests(call.arg.filter.o, 1))

\* C14 witness: a filter of a number and null compiled to an equality and
\* an IS NULL test
C14_Witness ==
    /\ ScalarFilter
    /\ Len(call.arg.filter.o) = 2
    /\ is_number(call.arg.filter.o[1][2])
    /\ is_null(call.arg.filter.o[2][2])
    /\ IsOk(call.ret)

\* compile_filter was called with a filter object of one field of the
\* class, tested by an array
ArrayFilter ==
    /\ op = "compile_class_filter"
    /\ is_object(call.arg.filter)
    /\ Len(call.arg.filter.o) = 1
    /\ call.arg.filter.o[1][1] \in DOMAIN classes[call.arg.class].fields
    /\ is_array(call.arg.filter.o[1][2])

\* the literals of the members from the i-th on, separated by ", "
RECURSIVE LiteralList(_, _)
LiteralList(members, i) ==
    IF i > Len(members) THEN <<>>
    ELSE (IF i > 1 THEN <<", ">> ELSE <<>>)
         \o json_literal_to_sql_value(members[i]) \o LiteralList(members, i + 1)

\* C15: a field whose sub-query is an array compiles to
\* `field IN (l1, l2, ..., ln)` with one literal per member, in the array's
\* order, separated by ", "; a member that is not a literal is never left
\* out of a text that compile_filter returns.
C15_ArrayMembers ==
    ArrayFilter =>
        LET field == call.arg.filter.o[1][1]
            members == call.arg.filter.o[1][2].a
            literals == \A i \in 1..Len(members) : IsLiteral(members[i])
        IN  /\ literals =>
                 call.ret = Ok(<<" WHERE", " ", field, " IN (">>
                               \o LiteralList(members, 1) \o <<")">>)
            /\ IsOk(call.ret) => literals

\* the first position of a piece in a text, 0 when the text has no such piece
PositionOf(piece, sql) ==
    IF piece \in Range(sql)
    THEN CHOOSE i \in 1..Len(sql) :
            sql[i] = piece /\ \A k \in 1..(i - 1) : sql[k] # piece
    ELSE 0

SearchReturned ==
    /\ SearchSent
    /\ IsOk(call.ret)
    /\ db_reply # NoValue
    /\ db_reply # DbError

\* the text sql has the pieces of part next to each other, in their order
HasPart(sql, part) ==
    \E k \in 0..(Len(sql) - Len(part)) :
        SubSeq(sql, k + 1, k + Len(part)) = part

RetrievedByPkey ==
    /\ op = "idl_class_by_pkey"
    /\ call.arg.classname \in DOMAIN classes
    /\ classes[call.arg.classname].pkey # NoPkey

\* what search does with the filter {primary key field: key} when the
\* database client answers what it answered to the call
SearchByPkey ==
    idl_class_search(
        classes,
        IdlClassSearch(call.arg.classname,
                       Obj1(classes[call.arg.classname].pkey, call.arg.pkey),
                       NoValue, NoValue),
        IF db_reply = NoValue THEN DbError ELSE db_reply)

ParseCrashed == parse_panic # NoValue

C23_NoRetry ==
    op = "idl_class_search" =>
        /\ Len(db_queries) <= 1
        /\ db_reply = DbError =>
              /\ Len(db_queries) = 1
              /\ call.ret = Err(DatabaseExecutionError, "")

\* C23 witness: the database client failed on the statement of a search
C23_Witness ==
    /\ op = "idl_class_search"
    /\ db_reply = DbError
    /\ IsErr(call.ret)
    /\ call.ret.msg = DatabaseExecutionError

SupportedTypeNames ==
    { "bool", "varchar", "char(n)", "text", "name", "timestamp", "timestamptz",
      "int2", "smallserial", "smallint", "int", "int4", "serial",
      "int8", "bigserial", "bigint", "float4", "real",
      "float8", "double precision" }

\* C25: for a column of every type it matches, col_value_to_json_value
\* returns JSON null when the column holds NULL and the value of the column
\* otherwise, which is never JSON null: NULL is not read as false, 0 or the
\* empty string.
C25_NullDecodesToNull ==
    (op = "col_value_to_json_value" /\ call.arg.type \in SupportedTypeNames)
    => /\ IsOk(call.ret)
       /\ call.arg.val = SqlNull => call.ret.json = JNull
       /\ call.arg.val # SqlNull =>
             call.ret.json = call.arg.val /\ call.ret.json # JNull

\* C25 witness: a NULL column of a 32-bit integer type was decoded
C25_Witness ==
    /\ op = "col_value_to_json_value"
    /\ call.arg = Column("int4", SqlNull)
    /\ IsOk(call.ret)

\* the reply to the search has a column, under a selected field, of a type
\* col_value_to_json_value does not match
ReplyHasUnsupportedColumn ==
    /\ SearchSent
    /\ db_reply # NoValue
    /\ db_reply # DbError
    /\ \E i \in 1..Len(db_reply.rows) :
          \E k \in 1..Len(row_fields(classes[call.arg.classname])) :
             /\ k \in DOMAIN db_reply.rows[i]
             /\ db_reply.rows[i][k].type \notin SupportedTypeNames

\* C26: col_value_to_json_value fails with the unsupported-column-type
\* error on every type name it does not match, and a search whose reply
\* holds such a column in any row returns that error and no object, not
\* even those of the rows before it.
C26_UnsupportedTypeFailsTheSearch ==
    /\ (op = "col_value_to_json_value" /\ call.arg.type \notin SupportedTypeNames)
          => call.ret = Err(UnsupportedColumnType, call.arg.type)
    /\ ReplyHasUnsupportedColumn =>
          IsErr(call.ret) /\ call.ret.msg = UnsupportedColumnType

\* C26 witness: the second of two rows held the column that cannot be
\* mapped, and the search returned the error
C26_Witness ==
    /\ ReplyHasUnsupportedColumn
    /\ Len(db_reply.rows) = 2
    /\ \A k \in DOMAIN db_reply.rows[1] :
          db_reply.rows[1][k].type \in SupportedTypeNames
    /\ IsErr(call.ret)

\* the array positions of the fields a class holds
PositionsOf(class) == { class.fields[f].array_pos : f \in DOMAIN class.fields }

\* C27: in every class of the parsed registry no two fields have the same
\* array position, and the positions are exactly 0 .. F-1 for the F fields
\* the class holds, also when the source declares a field name twice or
\* declares isnew, ischanged or isdeleted.
C27_PositionsAreContiguous ==
    Parsed =>
        \A c \in DOMAIN classes :
            LET class == classes[c]
                F == Cardinality(DOMAIN class.fields)
            IN  /\ \A f, g \in DOMAIN class.fields :
                      f # g => class.fields[f].array_pos # class.fields[g].array_pos
                /\ PositionsOf(class) = 0..(F - 1)

(***************************************************************************)
(* Properties of the shape of the WHERE clause.                            *)
(***************************************************************************)
\* the places of a text where a predicate starts: after WHERE or an AND
PredicateStarts(sql) == { k \in 1..Len(sql) : sql[k] \in {" WHERE", " AND"} }

\* the text has one predicate per entry of the filter, on the entries'
\* fields in their order, the first after WHERE and the others after AND
PredicatePerEntry(sql, entries) ==
    /\ Cardinality(PredicateStarts(sql)) = Len(entries)
    /\ \A k \in PredicateStarts(sql) :
          LET j == Cardinality({h \in PredicateStarts(sql) : h <= k})
          IN  /\ sql[k] = (IF j = 1 THEN " WHERE" ELSE " AND")
              /\ k + 2 <= Len(sql)
              /\ sql[k + 1] = " "
              /\ sql[k + 2] = entries[j][1]

\* C28: the text compile_class_filter returns for a filter object of n
\* entries holds n predicates, in the order of the entries, the first after
\* WHERE and each other after one AND; for n = 0 the text is empty, and the
\* statement of a search with the empty filter object has no WHERE.
C28_OnePredicatePerEntry ==
    /\ (op = "compile_class_filter" /\ is_object(call.arg.filter) /\ IsOk(call.ret))
          => /\ PredicatePerEntry(call.ret.val, call.arg.filter.o)
             /\ call.arg.filter.o = <<>> => call.ret.val = <<>>
    /\ (SearchSent /\ call.arg.filter = JObj(<<>>))
          => " WHERE" \notin Range(db_queries[1])

\* compile_class_filter was called with a filter of one field of the class
\* tested by an object, and returned a text
ObjectTestCompiled ==
    /\ op = "compile_class_filter"
    /\ is_object(call.arg.filter)
    /\ Len(call.arg.filter.o) = 1
    /\ call.arg.filter.o[1][1] \in DOMAIN classes[call.arg.class].fields
    /\ is_object(call.arg.filter.o[1][2])
    /\ IsOk(call.ret)

\* C29: when compile_class_filter returns a text for a field tested by an
\* object, the object has exactly one operand and the text is the one
\* comparison `field operand literal`: an object with no operand or with
\* several operands is never compiled to a text.
C29_OneComparisonPerField ==
    ObjectTestCompiled =>
        LET field == call.arg.filter.o[1][1]
            tests == call.arg.filter.o[1][2].o
        IN  /\ Len(tests) = 1
            /\ Len(tests) = 1 =>
                  call.ret.val
                     = <<" WHERE", " ", field, " ", to_uppercase(tests[1][1]), " ">>
                       \o json_literal_to_sql_value(tests[1][2])

(***************************************************************************)
(* Properties of the Editor.                                               *)
(***************************************************************************)
\* the messages the session sent during the last call on the editor
SentByCall == SubSeq(requests, call.arg.log + 1, Len(requests))

\* C30: after every call of rollback, whatever it returned, the editor has
\* no transaction id, xact_wanted is false and it holds no session; and
\* the call sent the transaction.rollback request only if the editor had a
\* session and a transaction id when it was called.
C30_RollbackClearsTheEditor ==
    op = "rollback" =>
        /\ ~has_xact_id(editor)
        /\ editor.xact_wanted = FALSE
        /\ ~has_session(editor)
        /\ "open-ils.cstore.transaction.rollback" \in Range(SentByCall)
              => has_session(call.arg.editor) /\ has_xact_id(call.arg.editor)

====
